---- MODULE Spec2Model ----
(***************************************************************************)
(* Model of the GodBolt cog (src/godbolt/godbolt.py): the code-block       *)
(* parser _unpack_raw, the formatter _to_codeblock, the two request        *)
(* presets of CompilerOptions and the run / dissassemble command handlers. *)
(*                                                                         *)
(* A Python str is a sequence of one-character strings.  Indices keep the  *)
(* code's 0-based convention: the character s[i] of the code is s[i + 1]   *)
(* of the sequence.                                                        *)
(***************************************************************************)
EXTENDS Integers, Sequences, FiniteSets, TLC

VARIABLES raw, parsed, data, limit, block, pc, call, reqs, msgs, resp

vars == <<raw, parsed, data, limit, block, pc, call, reqs, msgs, resp>>

parseVars == <<raw, parsed>>
fmtVars == <<data, limit, block>>
cmdVars == <<pc, call, reqs, msgs, resp>>

----------------------------------------------------------------------------
(* Bounds of the model *)

MaxRawLen == 10
MaxFrags == 2
MaxFragLen == 2
MaxLimit == 5
NumInv == 2
MaxCode == 1

----------------------------------------------------------------------------
(* Characters and strings *)

\* The backquote character (a TLA+ string cannot hold it literally).
BT == "BACKQUOTE"
NL == "\n"
\* Characters that \w of the re module matches, among those the model uses.
WordChars == {"x", "O", "3"}
\* The alphabet of the exhaustively enumerated texts.
Chars == {BT, NL, "x"}
FENCE == <<BT, BT, BT>>

Min(a, b) == IF a < b THEN a ELSE b
Max(a, b) == IF a < b THEN b ELSE a

StringsUpTo(alphabet, n) == UNION {[1..k -> alphabet] : k \in 0..n}

\* s[lo:hi] of Python for a str s and integers lo, hi: negative indices count
\* from the end, both ends are clamped to the string.
PySlice(s, lo, hi) ==
    LET n == Len(s)
        l == IF lo < 0 THEN Max(lo + n, 0) ELSE Min(lo, n)
        h == IF hi < 0 THEN Max(hi + n, 0) ELSE Min(hi, n)
    IN  IF l >= h THEN <<>> ELSE SubSeq(s, l + 1, h)

\* Whether sub occurs in s at the 0-based index i.
OccursAt(s, sub, i) ==
    /\ i >= 0
    /\ i + Len(sub) <= Len(s)
    /\ \A k \in 1..Len(sub) : s[i + k] = sub[k]

\* s.find(sub, start) for start >= 0: the lowest index >= start at which sub
\* occurs, or -1.
RECURSIVE find(_, _, _)
find(s, sub, start) ==
    IF start + Len(sub) > Len(s) THEN -1
    ELSE IF OccursAt(s, sub, start) THEN start
    ELSE find(s, sub, start + 1)

\* The end of re.match(r"\w+", s): the length of the longest leading run of
\* word characters; 0 stands for "no match".
RECURSIVE match_end(_, _)
match_end(s, i) ==
    IF i < Len(s) /\ s[i + 1] \in WordChars THEN match_end(s, i + 1) ELSE i

----------------------------------------------------------------------------
(* GodBolt._unpack_raw *)

ERR_FORMAT == "Invalid source code format given. Please encode the source code in code blocks."
ERR_LANG == "Language not specified, as expected per format."

ValueError(reason) == [ok |-> FALSE, err |-> reason]

_unpack_raw_skip2(r) ==
    LET start0 == find(r, FENCE, 0)
        start_idx == start0 + 3
        end_idx == find(r, FENCE, start_idx)
        inner == PySlice(r, start_idx, end_idx)
        lang_end == match_end(inner, 0)
    IN  IF start0 < 0 \/ end_idx < 0 THEN ValueError(ERR_FORMAT)
        ELSE IF lang_end = 0 THEN ValueError(ERR_LANG)
        ELSE [ok |-> TRUE, lang |-> PySlice(inner, 0, lang_end),
              args |-> PySlice(r, 0, start_idx),
              source |-> PySlice(inner, lang_end + 2, end_idx)]

_unpack_raw_nolangcheck(r) ==
    LET start0 == find(r, FENCE, 0)
        start_idx == start0 + 3
        end_idx == find(r, FENCE, start_idx)
        inner == PySlice(r, start_idx, end_idx)
        lang_end == match_end(inner, 0)
    IN  IF start0 < 0 \/ end_idx < 0 THEN ValueError(ERR_FORMAT)
        ELSE [ok |-> TRUE, lang |-> PySlice(inner, 0, lang_end),
              args |-> PySlice(r, 0, start_idx),
              source |-> PySlice(inner, lang_end + 1, end_idx)]

_unpack_raw(r) ==
    LET start0 == find(r, FENCE, 0)
    IN  IF start0 < 0 THEN ValueError(ERR_FORMAT)
        ELSE
          LET start_idx == start0 + 3
              end_idx == find(r, FENCE, start_idx)
          IN  IF end_idx < 0 THEN ValueError(ERR_FORMAT)
              ELSE
                LET args == PySlice(r, 0, start_idx)
                    inner == PySlice(r, start_idx, end_idx)
                    lang_end == match_end(inner, 0)
                IN  IF lang_end = 0 THEN ValueError(ERR_LANG)
                    ELSE [ok |-> TRUE,
                          lang |-> PySlice(inner, 0, lang_end),
                          args |-> args,
                          source |-> PySlice(inner, lang_end + 1, end_idx)]

NotParsed == [ok |-> FALSE, err |-> "not parsed"]

----------------------------------------------------------------------------
(* Specification of the parser alone: any input text, then one call *)

RawInputs == StringsUpTo(Chars, MaxRawLen)

ParseIdle ==
    /\ data = <<>> /\ limit = 0 /\ block = <<>>
    /\ pc = <<>> /\ call = <<>> /\ reqs = <<>> /\ msgs = <<>> /\ resp = <<>>

InitParse ==
    /\ raw \in RawInputs
    /\ parsed = NotParsed
    /\ ParseIdle

Parse ==
    /\ parsed = NotParsed
    /\ parsed' = _unpack_raw(raw)
    /\ UNCHANGED <<raw, fmtVars, cmdVars>>

NextParse == Parse

SpecParse == InitParse /\ [][NextParse]_vars

Parsed == parsed # NotParsed

----------------------------------------------------------------------------
(* Claims about the parser *)

\* A triple backquote stands at the 1-based position i of s.
FenceAt(s, i) ==
    /\ i >= 1
    /\ i + 2 <= Len(s)
    /\ s[i] = BT /\ s[i + 1] = BT /\ s[i + 2] = BT

HasFence(s) == \E i \in 1..Len(s) : FenceAt(s, i)

\* The position of the opening marker: the first triple backquote.
Opening(s) ==
    CHOOSE i \in 1..Len(s) : FenceAt(s, i) /\ \A j \in 1..(i - 1) : ~FenceAt(s, j)

HasClosing(s) == \E j \in (Opening(s) + 3)..Len(s) : FenceAt(s, j)

LangMissing(s) ==
    \/ Opening(s) + 3 > Len(s)
    \/ s[Opening(s) + 3] \notin WordChars

IsWord(s) == Len(s) > 0 /\ \A k \in 1..Len(s) : s[k] \in WordChars

\* raw = prefix + FENCE + lang + NL + SOURCE + FENCE, with the prefix of
\* length i and the language tag ending at position j.
Decomposes(s, i, j) ==
    /\ FenceAt(s, i + 1)
    /\ i + 4 <= j
    /\ j + 1 <= Len(s) - 3
    /\ IsWord(SubSeq(s, i + 4, j))
    /\ s[j + 1] = NL
    /\ FenceAt(s, Len(s) - 2)
    /\ ~HasFence(SubSeq(s, 1, i))
    /\ ~HasFence(SubSeq(s, j + 2, Len(s) - 3))

\* C1: every input prefix + FENCE + lang + NL + SOURCE + FENCE (lang a
\* non-empty run of word characters, no triple backquote in prefix or SOURCE)
\* parses to precedingArgs = prefix, language = lang, source = SOURCE.
C1_PrefixLangSource ==
    Parsed =>
      \A i \in 0..Len(raw), j \in 0..Len(raw) :
        Decomposes(raw, i, j) =>
          /\ parsed.ok
          /\ parsed.args = SubSeq(raw, 1, i)
          /\ parsed.lang = SubSeq(raw, i + 4, j)
          /\ parsed.source = SubSeq(raw, j + 2, Len(raw) - 3)

\* C2: the parser fails, with an error value and no parsed fields, exactly
\* when the input has no triple backquote, or no second one after the
\* opening one, or the text right after the opening one does not start with
\* a word character; every other input parses.
C2_FailsExactlyWhenMalformed ==
    Parsed =>
      LET noFence == ~HasFence(raw)
          noClose == HasFence(raw) /\ ~HasClosing(raw)
          noLang == HasFence(raw) /\ HasClosing(raw) /\ LangMissing(raw)
      IN  /\ parsed.ok <=> ~(noFence \/ noClose \/ noLang)
          /\ ~parsed.ok => DOMAIN parsed = {"ok", "err"}
          /\ (noFence \/ noClose) => parsed.err = ERR_FORMAT
          /\ noLang => parsed.err = ERR_LANG
          /\ parsed.ok => DOMAIN parsed = {"ok", "lang", "args", "source"}

C2_Witness ==
    /\ Parsed
    /\ ~parsed.ok
    /\ HasFence(raw) /\ HasClosing(raw) /\ LangMissing(raw)
    /\ Len(raw) > Opening(raw) + 5

EmptyBodyInput == FENCE \o <<"x", NL, NL>> \o FENCE

\* C3 as stated: the block with language x whose body is a single empty
\* line parses to the empty source.
C3_EmptySourceOriginal ==
    (Parsed /\ raw = EmptyBodyInput) => (parsed.ok /\ parsed.source = <<>>)

\* C3 as amended: that block parses, and its source is the one newline that
\* stands between the separator and the closing marker; the source is empty
\* for the block whose closing marker follows the separator directly.
C3_EmptySourceAmended ==
    /\ (Parsed /\ raw = EmptyBodyInput) =>
          (parsed.ok /\ parsed.lang = <<"x">> /\ parsed.source = <<NL>>)
    /\ (Parsed /\ raw = FENCE \o <<"x", NL>> \o FENCE) =>
          (parsed.ok /\ parsed.lang = <<"x">> /\ parsed.source = <<>>)

C3_Witness == Parsed /\ raw = EmptyBodyInput /\ parsed.ok

----------------------------------------------------------------------------
(* GodBolt._to_codeblock *)

\* "\n".join(texts)
RECURSIVE join(_, _)
join(sep, texts) ==
    IF Len(texts) = 0 THEN <<>>
    ELSE IF Len(texts) = 1 THEN texts[1]
    ELSE texts[1] \o sep \o join(sep, Tail(texts))

_to_codeblock_ellipsis(d, lim) ==
    IF Len(d) = 0 THEN <<>>
    ELSE LET content == join(<<NL>>, [k \in 1..Len(d) |-> d[k].text])
         IN  IF Len(content) > lim
             THEN FENCE \o <<NL>> \o PySlice(content, 0, lim) \o <<".", ".", ".">> \o FENCE
             ELSE FENCE \o <<NL>> \o content \o FENCE

_to_codeblock(d, lim) ==
    IF Len(d) = 0 THEN <<>>
    ELSE LET content == join(<<NL>>, [k \in 1..Len(d) |-> d[k].text])
         IN  FENCE \o <<NL>> \o PySlice(content, 0, lim) \o FENCE

----------------------------------------------------------------------------
(* Specification of the formatter alone: any fragments and limit, one call *)

Fragments == {[text |-> t] : t \in StringsUpTo(Chars, MaxFragLen)}
FragmentSeqs == UNION {[1..k -> Fragments] : k \in 0..MaxFrags}

NotFormatted == <<"(not formatted)">>

InitFmt ==
    /\ data \in FragmentSeqs
    /\ limit \in 0..MaxLimit
    /\ block = NotFormatted
    /\ raw = <<>> /\ parsed = NotParsed
    /\ pc = <<>> /\ call = <<>> /\ reqs = <<>> /\ msgs = <<>> /\ resp = <<>>

Format ==
    /\ block = NotFormatted
    /\ block' = _to_codeblock(data, limit)
    /\ UNCHANGED <<data, limit, parseVars, cmdVars>>

NextFmt == Format

SpecFmt == InitFmt /\ [][NextFmt]_vars

Formatted == block # NotFormatted

\* The number of characters of the joined text that precede fragment i.
RECURSIVE Offset(_, _)
Offset(d, i) == IF i <= 1 THEN 0 ELSE Offset(d, i - 1) + Len(d[i - 1].text) + 1

JoinedLen(d) == Offset(d, Len(d) + 1) - 1

\* The k-th character of the fragment texts joined with newlines.
JoinedChar(d, k) ==
    IF \E i \in 1..Len(d) : Offset(d, i) < k /\ k <= Offset(d, i) + Len(d[i].text)
    THEN LET i == CHOOSE i \in 1..Len(d) :
                    Offset(d, i) < k /\ k <= Offset(d, i) + Len(d[i].text)
         IN  d[i].text[k - Offset(d, i)]
    ELSE NL

\* b is the code block around the first lim characters of d's joined text.
IsBlockOf(b, d, lim) ==
    LET n == Min(lim, JoinedLen(d))
    IN  /\ Len(b) = 4 + n + 3
        /\ SubSeq(b, 1, 4) = FENCE \o <<NL>>
        /\ SubSeq(b, 4 + n + 1, 4 + n + 3) = FENCE
        /\ \A k \in 1..n : b[4 + k] = JoinedChar(d, k)

\* C4: the formatter yields a string for every fragment sequence and every
\* limit >= 0: the empty string for no fragments, otherwise the opening
\* line, exactly the first min(limit, length) characters of the texts joined
\* with newlines, and the closing marker; nothing marks a cut.
C4_FormatterTruncates ==
    Formatted =>
      /\ block \in Seq(Chars)
      /\ Len(data) = 0 => block = <<>>
      /\ Len(data) > 0 => IsBlockOf(block, data, limit)

C4_Witness ==
    /\ Formatted
    /\ Len(data) > 1
    /\ JoinedLen(data) > limit
    /\ limit > 0

----------------------------------------------------------------------------
(* CompilerOptions, RequestData *)

CompilerOptions(compilerOptions, filters, userArguments) ==
    [compilerOptions |-> compilerOptions,
     filters |-> filters,
     userArguments |-> userArguments,
     tools |-> <<>>,
     libraries |-> <<>>]

default_execute_noargs(comp_args) ==
    CompilerOptions([executorRequest |-> TRUE], [execute |-> TRUE], <<>>)

default_execute(comp_args) ==
    CompilerOptions([executorRequest |-> TRUE], [execute |-> TRUE], comp_args)

default_disassembly(comp_args) ==
    CompilerOptions(
        [skipAsm |-> FALSE, executorRequest |-> FALSE],
        [binary |-> FALSE, commentOnly |-> TRUE, demangle |-> TRUE,
         directives |-> TRUE, execute |-> FALSE, intel |-> TRUE,
         labels |-> TRUE, libraryCode |-> FALSE, trim |-> FALSE],
        comp_args)

RequestData(source, compiler, lang, options) ==
    [source |-> source,
     compiler |-> compiler,
     lang |-> lang,
     options |-> options,
     allowStoreCodeDebug |-> FALSE]

\* dataclasses.asdict: the record of the fields, nested dataclasses included.
asdict(d) == d

_url_base == "https://godbolt.org"

\* An f-string is the sequence of its literal and interpolated segments.
_endpoint(end) == <<_url_base>> \o end

\* session.post(url, headers=..., json=...)
Post(url, body) ==
    [method |-> "POST",
     url |-> url,
     headers |-> [accept |-> "application/json"],
     json |-> body]

----------------------------------------------------------------------------
(* GodBolt.godbolt_run and GodBolt.godbolt_asm *)

DefaultLimit == 500
AsmLimit == 1500

EMPTY == <<"E", "M", "P", "T", "Y">>

\* a or b of Python, for strings
StrOr(a, b) == IF a = <<>> THEN b ELSE a

\* The handler up to its first suspension: what it sends to the user, what
\* it posts to the remote service, and where it stands afterwards.
godbolt_run_begin_compargs(compiler, comp_args, rawtext) ==
    LET p == _unpack_raw(rawtext)
    IN  IF ~p.ok
        THEN [pc |-> "done", send |-> << <<"Error in formatting. ", p.err>> >>, post |-> <<>>]
        ELSE [pc |-> "posted", send |-> <<>>,
              post |-> << Post(_endpoint(<<"/api/compiler/", compiler, "/compile">>),
                               asdict(RequestData(p.source, compiler, p.lang,
                                                  default_execute(comp_args)))) >>]

godbolt_run_begin_uncaught(compiler, comp_args, rawtext) ==
    LET p == _unpack_raw(rawtext)
    IN  IF ~p.ok
        THEN [pc |-> "faulted", send |-> <<>>, post |-> <<>>]
        ELSE [pc |-> "posted", send |-> <<>>,
              post |-> << Post(_endpoint(<<"/api/compiler/", compiler, "/compile">>),
                               asdict(RequestData(p.source, compiler, p.lang,
                                                  default_execute(p.args)))) >>]

godbolt_run_begin(compiler, comp_args, rawtext) ==
    LET p == _unpack_raw(rawtext)
    IN  IF ~p.ok
        THEN [pc |-> "done", send |-> << <<"Error in formatting. ", p.err>> >>, post |-> <<>>]
        ELSE [pc |-> "posted", send |-> <<>>,
              post |-> << Post(_endpoint(<<"/api/compiler/", compiler, "/compile">>),
                               asdict(RequestData(p.source, compiler, p.lang,
                                                  default_execute(p.args)))) >>]

\* The message godbolt_run sends for the response body resp_data.
RunMessage(build_result, exit_code, stdout, stderr) ==
    <<build_result, ". Exit code: ", BT, exit_code, BT,
      "\nstdout:\n", StrOr(stdout, EMPTY), "\nstderr:\n", StrOr(stderr, EMPTY)>>

godbolt_run_reply_toplevel(resp_data) ==
    IF resp_data.didExecute
    THEN RunMessage("Execution successful.",
                    resp_data.code,
                    _to_codeblock(resp_data.stdout, DefaultLimit),
                    _to_codeblock(resp_data.stderr, DefaultLimit))
    ELSE RunMessage("**Compilation failed.**",
                    resp_data.code,
                    _to_codeblock(resp_data.stdout, DefaultLimit),
                    _to_codeblock(resp_data.stderr, DefaultLimit))

godbolt_run_reply(resp_data) ==
    IF resp_data.didExecute
    THEN RunMessage("Execution successful.",
                    resp_data.code,
                    _to_codeblock(resp_data.stdout, DefaultLimit),
                    _to_codeblock(resp_data.stderr, DefaultLimit))
    ELSE RunMessage("**Compilation failed.**",
                    resp_data.buildResult.code,
                    _to_codeblock(resp_data.buildResult.stdout, DefaultLimit),
                    _to_codeblock(resp_data.buildResult.stderr, DefaultLimit))

godbolt_asm_begin_eager(compiler, rawtext) ==
    LET p == _unpack_raw(rawtext)
    IN  IF ~p.ok
        THEN [pc |-> "done", send |-> << <<"Error in formatting. ", p.err>> >>, post |-> <<>>]
        ELSE [pc |-> "posted", send |-> << <<"Compilation successful.", "\n", <<>> >> >>,
              post |-> << Post(_endpoint(<<"/api/compiler/", compiler, "/compile">>),
                               asdict(RequestData(p.source, compiler, p.lang,
                                                  default_disassembly(<<>>)))) >>]

godbolt_asm_begin(compiler, rawtext) ==
    LET p == _unpack_raw(rawtext)
    IN  IF ~p.ok
        THEN [pc |-> "done", send |-> << <<"Error in formatting. ", p.err>> >>, post |-> <<>>]
        ELSE [pc |-> "posted", send |-> <<>>,
              post |-> << Post(_endpoint(<<"/api/compiler/", compiler, "/compile">>),
                               asdict(RequestData(p.source, compiler, p.lang,
                                                  default_disassembly(<<>>)))) >>]

godbolt_asm_reply_default_limit(resp_data) ==
    IF resp_data.code = 0
    THEN <<"Compilation successful.", "\n", _to_codeblock(resp_data.asm, DefaultLimit)>>
    ELSE <<"**Compilation failed.**", "\n", _to_codeblock(resp_data.stderr, DefaultLimit)>>

godbolt_asm_reply(resp_data) ==
    IF resp_data.code = 0
    THEN <<"Compilation successful.", "\n", _to_codeblock(resp_data.asm, AsmLimit)>>
    ELSE <<"**Compilation failed.**", "\n", _to_codeblock(resp_data.stderr, AsmLimit)>>

----------------------------------------------------------------------------
(* Invocations of the two commands *)

Invs == 1..NumInv

NoCall == [cmd |-> "none", compiler |-> "", comp_args |-> <<>>, raw |-> <<>>]
NoResponse == [received |-> FALSE]

InitCmd ==
    /\ pc = [i \in Invs |-> "idle"]
    /\ call = [i \in Invs |-> NoCall]
    /\ reqs = [i \in Invs |-> <<>>]
    /\ msgs = [i \in Invs |-> <<>>]
    /\ resp = [i \in Invs |-> NoResponse]
    /\ raw = <<>> /\ parsed = NotParsed
    /\ data = <<>> /\ limit = 0 /\ block = <<>>

\* godbolt run <compiler> <comp_args> <raw>: the handler runs to its first
\* suspension, the error message sent or the request posted.
Run(i, compiler, comp_args, rawtext) ==
    /\ pc[i] = "idle"
    /\ LET e == godbolt_run_begin(compiler, comp_args, rawtext)
       IN  /\ pc' = [pc EXCEPT ![i] = e.pc]
           /\ msgs' = [msgs EXCEPT ![i] = msgs[i] \o e.send]
           /\ reqs' = [reqs EXCEPT ![i] = reqs[i] \o e.post]
    /\ call' = [call EXCEPT ![i] = [cmd |-> "run", compiler |-> compiler,
                                    comp_args |-> comp_args, raw |-> rawtext]]
    /\ UNCHANGED <<resp, parseVars, fmtVars>>

\* godbolt dissassemble <compiler> <raw>
Asm(i, compiler, rawtext) ==
    /\ pc[i] = "idle"
    /\ LET e == godbolt_asm_begin(compiler, rawtext)
       IN  /\ pc' = [pc EXCEPT ![i] = e.pc]
           /\ msgs' = [msgs EXCEPT ![i] = msgs[i] \o e.send]
           /\ reqs' = [reqs EXCEPT ![i] = reqs[i] \o e.post]
    /\ call' = [call EXCEPT ![i] = [cmd |-> "asm", compiler |-> compiler,
                                    comp_args |-> <<>>, raw |-> rawtext]]
    /\ UNCHANGED <<resp, parseVars, fmtVars>>

\* session.post completes: the handler holds the response object and awaits
\* its body.
Respond(i) ==
    /\ pc[i] = "posted"
    /\ pc' = [pc EXCEPT ![i] = "reading"]
    /\ UNCHANGED <<call, reqs, msgs, resp, parseVars, fmtVars>>

\* resp.json() completes in godbolt_run: the reply is built and sent.
RunReceive(i, resp_data) ==
    /\ pc[i] = "reading"
    /\ call[i].cmd = "run"
    /\ resp' = [resp EXCEPT ![i] = resp_data]
    /\ msgs' = [msgs EXCEPT ![i] = Append(msgs[i], godbolt_run_reply(resp_data))]
    /\ pc' = [pc EXCEPT ![i] = "done"]
    /\ UNCHANGED <<call, reqs, parseVars, fmtVars>>

\* resp.json() completes in godbolt_asm: the reply is built and sent.
AsmReceive(i, resp_data) ==
    /\ pc[i] = "reading"
    /\ call[i].cmd = "asm"
    /\ resp' = [resp EXCEPT ![i] = resp_data]
    /\ msgs' = [msgs EXCEPT ![i] = Append(msgs[i], godbolt_asm_reply(resp_data))]
    /\ pc' = [pc EXCEPT ![i] = "done"]
    /\ UNCHANGED <<call, reqs, parseVars, fmtVars>>

\* The transport fails, or the body is not the JSON the handler reads: the
\* exception leaves the handler, which sends nothing.
Fault(i) ==
    /\ pc[i] \in {"posted", "reading"}
    /\ pc' = [pc EXCEPT ![i] = "faulted"]
    /\ UNCHANGED <<call, reqs, msgs, resp, parseVars, fmtVars>>

----------------------------------------------------------------------------
(* Inputs of the commands and responses of the remote service *)

Compilers == {"g82", "clang"}
CompArgs == {<<>>, <<"-", "O", "3">>}

PlainBlock == FENCE \o <<"x", NL, "x">> \o FENCE
ArgsBlock == <<"-", "O", "3", " ">> \o FENCE \o <<"x", "x", NL, "x", NL>> \o FENCE
NoSourceBlock == <<"x", NL>> \o FENCE \o <<"x", NL>> \o FENCE \o <<"x">>
NoFenceText == <<"x", NL, "x">>
NoClosingText == <<"x">> \o FENCE \o <<"x", NL, "x">>
NoLangBlock == FENCE \o <<NL, "x">> \o FENCE

GoodBlocks == {PlainBlock, ArgsBlock, NoSourceBlock, EmptyBodyInput}
BadBlocks == {<<>>, NoFenceText, NoClosingText, NoLangBlock}
RawBlocks == GoodBlocks \cup BadBlocks

Codes == 0..MaxCode

Line(t) == [text |-> t]
LongLine(n) == Line([k \in 1..n |-> "x"])

\* Output streams: none, one line, two lines, and one longer than each limit.
RunStreams == {<<>>, <<Line(<<"x">>), Line(<<"x", "x">>)>>, <<LongLine(DefaultLimit + 1)>>}
AsmStreams == {<<>>, <<Line(<<"x">>)>>, <<Line(<<"x">>), Line(<<>>)>>,
               <<LongLine(DefaultLimit), LongLine(AsmLimit - DefaultLimit)>>}

BuildResults == [code : Codes, stdout : RunStreams, stderr : RunStreams]

RunResponses ==
    [received : {TRUE}, didExecute : BOOLEAN, code : Codes,
     stdout : RunStreams, stderr : RunStreams, buildResult : BuildResults]

AsmResponses ==
    [received : {TRUE}, code : Codes, asm : AsmStreams, stderr : AsmStreams]

\* The steps of the invocations I with the inputs and responses given.
CmdNext(I, blocks, runResponses, asmResponses) ==
    \E i \in I :
        \/ \E c \in Compilers, a \in CompArgs, r \in blocks : Run(i, c, a, r)
        \/ \E c \in Compilers, r \in blocks : Asm(i, c, r)
        \/ Respond(i)
        \/ \E d \in runResponses : RunReceive(i, d)
        \/ \E d \in asmResponses : AsmReceive(i, d)
        \/ Fault(i)

\* One invocation, every block and every response.
NextOne == CmdNext({1}, RawBlocks, RunResponses, AsmResponses)

SpecOne == InitCmd /\ [][NextOne]_vars

\* Interleaved invocations, one block of each kind and two responses each.
FewBlocks == {ArgsBlock, NoLangBlock}
FewRunResponses ==
    {d \in RunResponses :
        /\ d.code = 0 /\ d.stdout = <<>> /\ d.stderr = <<>>
        /\ d.buildResult = [code |-> MaxCode, stdout |-> <<>>, stderr |-> <<>>]}
FewAsmResponses ==
    {d \in AsmResponses : d.asm = <<>> /\ d.stderr = <<>> /\ d.code \in {0, MaxCode}}

Next == CmdNext(Invs, FewBlocks, FewRunResponses, FewAsmResponses)

Spec == InitCmd /\ [][Next]_vars

----------------------------------------------------------------------------
(* Claims about the commands *)

Called(i) == call[i].cmd # "none"
ParseOf(i) == _unpack_raw(call[i].raw)

\* C5: an invocation of run or dissassemble whose block the parser rejects
\* sends exactly one message, "Error in formatting. " followed by the
\* parser's reason, posts no request and returns normally.
C5_MalformedBlockReported ==
    \A i \in Invs :
        (Called(i) /\ ~ParseOf(i).ok) =>
            /\ pc[i] = "done"
            /\ Len(msgs[i]) = 1
            /\ Len(msgs[i][1]) = 2
            /\ msgs[i][1][1] = "Error in formatting. "
            /\ msgs[i][1][2] = ParseOf(i).err
            /\ msgs[i][1][2] \in {ERR_FORMAT, ERR_LANG}
            /\ Len(reqs[i]) = 0
            /\ ~resp[i].received

C5_Witness ==
    \E i \in Invs :
        /\ call[i].cmd = "asm"
        /\ call[i].raw = NoClosingText
        /\ pc[i] = "done"
        /\ Len(msgs[i]) = 1

\* The text shown for an output stream: EMPTY for no fragments, otherwise
\* the code block around the first lim characters.
Rendered(t, stream, lim) ==
    IF Len(stream) = 0 THEN t = EMPTY ELSE IsBlockOf(t, stream, lim)

\* C6: the reply of run to a response: with didExecute the status is
\* "Execution successful." and stdout, stderr and exit code are the
\* response's own; without it the status is "**Compilation failed.**" and
\* all three are those of buildResult; an empty stream shows as EMPTY, any
\* other as the code block cut at 500 characters.
C6_ExecuteInterpretation ==
    \A i \in Invs :
        (call[i].cmd = "run" /\ resp[i].received) =>
            LET r == resp[i]
                m == msgs[i][1]
                from == IF r.didExecute
                        THEN [code |-> r.code, stdout |-> r.stdout, stderr |-> r.stderr]
                        ELSE r.buildResult
            IN  /\ Len(msgs[i]) = 1
                /\ Len(m) = 9
                /\ m[1] = IF r.didExecute THEN "Execution successful."
                                          ELSE "**Compilation failed.**"
                /\ m[4] = from.code
                /\ Rendered(m[7], from.stdout, 500)
                /\ Rendered(m[9], from.stderr, 500)

C6_Witness ==
    \E i \in Invs :
        /\ call[i].cmd = "run"
        /\ resp[i].received
        /\ ~resp[i].didExecute
        /\ resp[i].buildResult.code # resp[i].code
        /\ resp[i].buildResult.stdout = <<>>
        /\ resp[i].stdout # <<>>
        /\ JoinedLen(resp[i].buildResult.stderr) > 500
        /\ resp[i].stderr = <<>>
        /\ Len(msgs[i]) = 1

\* C7: the reply of dissassemble to a response: with code 0 the status is
\* "Compilation successful." and the output is the asm lines cut at 1500
\* characters; with any other code the status is "**Compilation failed.**"
\* and the output is the stderr lines cut at 1500; the reply holds nothing
\* of the other sequence.
C7_DisassembleInterpretation ==
    \A i \in Invs :
        (call[i].cmd = "asm" /\ resp[i].received) =>
            LET r == resp[i]
                m == msgs[i][1]
                lines == IF r.code = 0 THEN r.asm ELSE r.stderr
            IN  /\ Len(msgs[i]) = 1
                /\ Len(m) = 3
                /\ m[1] = IF r.code = 0 THEN "Compilation successful."
                                        ELSE "**Compilation failed.**"
                /\ IF Len(lines) = 0 THEN m[3] = <<>> ELSE IsBlockOf(m[3], lines, 1500)

C7_Witness ==
    \E i \in Invs :
        /\ call[i].cmd = "asm"
        /\ resp[i].received
        /\ resp[i].code # 0
        /\ JoinedLen(resp[i].stderr) > 1500
        /\ Len(resp[i].asm) = 1
        /\ Len(msgs[i]) = 1

OneRequestOneReply(i) ==
    /\ Len(reqs[i]) <= 1
    /\ Len(reqs[i]) = 1 => (Called(i) /\ ParseOf(i).ok)
    /\ (Called(i) /\ ParseOf(i).ok /\ Len(msgs[i]) > 0) =>
          (resp[i].received /\ Len(reqs[i]) = 1)
    /\ resp[i].received => (Len(msgs[i]) = 1 /\ Len(reqs[i]) = 1 /\ pc[i] = "done")

\* What holds of every invocation in every step.
RequestThenReply(i) ==
    /\ Len(reqs'[i]) > Len(reqs[i]) =>
          (pc[i] = "idle" /\ Len(msgs'[i]) = 0 /\ ~resp'[i].received)
    /\ (Len(msgs'[i]) > Len(msgs[i]) /\ Len(reqs'[i]) > 0) =>
          (pc[i] = "reading" /\ ~resp[i].received /\ resp'[i].received
           /\ Len(reqs[i]) = 1)
    /\ \A k \in Invs \ {i} :
          pc'[i] # pc[i] => (reqs'[k] = reqs[k] /\ Len(msgs'[k]) = Len(msgs[k])
                             /\ pc'[k] = pc[k])

\* C9: every invocation posts at most one request, and only once the parser
\* has accepted its block; it replies only in the step in which the response
\* to that request arrives, and then exactly once; the steps of one
\* invocation leave the requests and messages of the others alone.
C9_OneCallOneReply ==
    /\ [](\A i \in Invs : OneRequestOneReply(i))
    /\ [][\A i \in Invs : RequestThenReply(i)]_vars

C9_Witness ==
    \E i \in Invs, k \in Invs :
        /\ i # k
        /\ pc[i] = "reading"
        /\ call[i].cmd = "asm"
        /\ call[k].cmd = "run"
        /\ resp[k].received
        /\ Len(msgs[k]) = 1
        /\ Len(msgs[i]) = 0

====
